---- MODULE Spec2Model ----
(***************************************************************************)
(* WeatherView: the in-memory TTL cache of services/cache.py.              *)
(*                                                                         *)
(* The cache is a dict key -> {data, expires_at, created_at}.  The clock   *)
(* (time.time()) is the variable now; every operation of the class reads   *)
(* it once, so an operation is one atomic step at the instant now.         *)
(*                                                                         *)
(* Besides the program state the module keeps history variables, which the *)
(* program does not have and which no action reads to decide what to do:   *)
(*   op, ret   the last operation with its arguments, and what it returned *)
(*   pre       the dict as it was just before the last operation           *)
(*   written   per key, the last set(k, v) not yet undone by delete/clear  *)
(*   ref       the dict of a second run that receives the same calls       *)
(*             except cleanup_expired, refret what its get returned        *)
(***************************************************************************)
EXTENDS Integers, FiniteSets, Sequences, TLC

VARIABLES ttl, cache, now, op, ret, pre, written, ref, refret,
          req, resp, fetched, used, upstream, mapped, threads

vars == <<ttl, cache, now, op, ret, pre, written, ref, refret,
          req, resp, fetched, used, upstream, mapped, threads>>

\* the variables of the request handlers and of the response mappers, which
\* the specification of the cache alone leaves as they are
handlervars == <<req, resp, fetched, used>>
mappervars == <<upstream, mapped>>
\* the calls in progress in the threads of the server
threadvars == <<threads>>

(* ---- bounds ---- *)
MaxTime == 4
MaxTTL == 2

Keys == {"k1", "k2"}
Values == {"v1", "v2"}
TTLs == 1..MaxTTL

(* Python's None, and the mark of a KeyError raised by a dict access *)
None == "None"
KeyError == "KeyError"
NoWrite == [data |-> None, at |-> -1]

(* ---- dict primitives ---- *)
\* self._cache[key]: raises KeyError when the key is missing
dict_getitem(d, key) ==
    IF key \in DOMAIN d THEN [raised |-> FALSE, value |-> d[key]]
    ELSE [raised |-> TRUE, value |-> KeyError]

\* del self._cache[key]
dict_delitem(d, key) == [k \in (DOMAIN d) \ {key} |-> d[k]]

\* self._cache[key] = entry
dict_setitem(d, key, entry) ==
    [k \in (DOMAIN d) \cup {key} |-> IF k = key THEN entry ELSE d[k]]

\* the expiry test shared by get, cleanup_expired and stats
is_expired(entry, current_time) == current_time > entry.expires_at

Returned(v, d) == [raised |-> FALSE, value |-> v, cache |-> d]
Raised(d) == [raised |-> TRUE, value |-> KeyError, cache |-> d]

(* ---- Cache methods as functions (dict, arguments, clock) -> result ---- *)
\* get without the expiry test: a stored entry is always returned
get_ignores_expiry(d, key, current_time) ==
    IF key \notin DOMAIN d THEN Returned(None, d)
    ELSE Returned(d[key].data, d)

\* get that reports an expired entry as a miss but leaves it stored
get_keeps_expired(d, key, current_time) ==
    IF key \notin DOMAIN d THEN Returned(None, d)
    ELSE IF is_expired(d[key], current_time) THEN Returned(None, d)
         ELSE Returned(d[key].data, d)

\* get without the membership test: the dict access raises on a missing key
get_unguarded(d, key, current_time) ==
    LET e == dict_getitem(d, key) IN
    IF e.raised THEN Raised(d)
    ELSE IF is_expired(e.value, current_time)
         THEN Returned(None, dict_delitem(d, key))
         ELSE Returned(e.value.data, d)

\* get with sliding expiration: a hit pushes expires_at forward
get_sliding(d, key, current_time) ==
    IF key \notin DOMAIN d THEN Returned(None, d)
    ELSE IF is_expired(d[key], current_time)
         THEN Returned(None, dict_delitem(d, key))
         ELSE Returned(d[key].data,
                       [d EXCEPT ![key].expires_at = @ + 1])

get(d, key, current_time) ==
    IF key \notin DOMAIN d THEN Returned(None, d)
    ELSE LET e == dict_getitem(d, key) IN
         IF e.raised THEN Raised(d)
         ELSE IF is_expired(e.value, current_time)
              THEN Returned(None, dict_delitem(d, key))
              ELSE Returned(e.value.data, d)

\* set that forgets to add the ttl
set_forgets_ttl(d, key, value, current_time, t) ==
    Returned(None, dict_setitem(d, key,
        [data |-> value, expires_at |-> current_time,
         created_at |-> current_time]))

\* set that replaces only the data of an existing entry
set_keeps_timestamps(d, key, value, current_time, t) ==
    Returned(None, dict_setitem(d, key,
        IF key \in DOMAIN d
        THEN [data |-> value, expires_at |-> d[key].expires_at,
              created_at |-> d[key].created_at]
        ELSE [data |-> value, expires_at |-> current_time + t,
              created_at |-> current_time]))

set(d, key, value, current_time, t) ==
    Returned(None, dict_setitem(d, key,
        [data |-> value, expires_at |-> current_time + t,
         created_at |-> current_time]))

\* delete written with pop(key, None): reports success for a missing key
delete_always_true(d, key) == Returned(TRUE, dict_delitem(d, key))

\* delete that also drops every other entry
delete_clears(d, key) ==
    IF key \in DOMAIN d THEN Returned(TRUE, [k \in {} |-> None])
    ELSE Returned(FALSE, d)

delete(d, key) ==
    IF key \in DOMAIN d THEN Returned(TRUE, dict_delitem(d, key))
    ELSE Returned(FALSE, d)

clear(d) == Returned(None, [k \in {} |-> None])

expired_keys(d, current_time) ==
    {k \in DOMAIN d : is_expired(d[k], current_time)}

\* cleanup that also removes the entries expiring at this very instant
cleanup_expired_at_boundary(d, current_time) ==
    LET ek == {k \in DOMAIN d : current_time >= d[k].expires_at} IN
    Returned(Cardinality(ek), [k \in (DOMAIN d) \ ek |-> d[k]])

\* cleanup that compares the clock with created_at
cleanup_expired_by_created(d, current_time) ==
    LET ek == {k \in DOMAIN d : current_time > d[k].created_at} IN
    Returned(Cardinality(ek), [k \in (DOMAIN d) \ ek |-> d[k]])

cleanup_expired(d, current_time) ==
    LET ek == expired_keys(d, current_time) IN
    Returned(Cardinality(ek), [k \in (DOMAIN d) \ ek |-> d[k]])

\* size that counts only the entries that have not expired
size_live_only(d) ==
    Returned(Cardinality({k \in DOMAIN d : ~is_expired(d[k], now)}), d)

size(d) == Returned(Cardinality(DOMAIN d), d)

\* stats that counts the active entries by a scan of its own
stats_separate_counts(d, current_time, t) ==
    LET total_entries == Cardinality(DOMAIN d)
        expired_entries ==
            Cardinality({k \in DOMAIN d : is_expired(d[k], current_time)})
        active_entries ==
            Cardinality({k \in DOMAIN d : current_time < d[k].expires_at})
    IN Returned([total_entries |-> total_entries,
                 active_entries |-> active_entries,
                 expired_entries |-> expired_entries,
                 ttl_seconds |-> t], d)

stats(d, current_time, t) ==
    LET total_entries == Cardinality(DOMAIN d)
        expired_entries ==
            Cardinality({k \in DOMAIN d : is_expired(d[k], current_time)})
    IN Returned([total_entries |-> total_entries,
                 active_entries |-> total_entries - expired_entries,
                 expired_entries |-> expired_entries,
                 ttl_seconds |-> t], d)

(* ---- state machine ---- *)
NoRequest == [kind |-> "none"]
NoResponse == [status |-> 0]

HandlersIdle ==
    /\ req = NoRequest
    /\ resp = NoResponse
    /\ fetched = [r \in {} |-> None]
    /\ used = [requests |-> 0, ticks |-> 0]

MappersIdle ==
    /\ upstream = [endpoint |-> "none"]
    /\ mapped = [raised |-> FALSE, value |-> None]

\* the request threads of the server (app.run, src/app.py:237)
Threads == {"t1", "t2"}
NoEntry == [data |-> None, expires_at |-> -1, created_at |-> -1]

\* a thread between two calls: the locals of the call it made last
Idle ==
    [pc |-> "idle", op |-> "none", key |-> None, value |-> None,
     current_time |-> 0, entry |-> NoEntry, expired_keys |-> <<>>,
     size |-> 0, visited |-> {}, removed |-> <<>>,
     ret |-> [raised |-> FALSE, value |-> None], calls |-> 0]

ThreadsIdle == threads = [t \in Threads |-> Idle]

Init ==
    /\ ttl \in TTLs
    /\ cache = [k \in {} |-> None]
    /\ now = 0
    /\ op = [name |-> "init", key |-> None, value |-> None]
    /\ ret = [raised |-> FALSE, value |-> None]
    /\ pre = [k \in {} |-> None]
    /\ written = [k \in Keys |-> NoWrite]
    /\ ref = [k \in {} |-> None]
    /\ refret = [raised |-> FALSE, value |-> None]
    /\ HandlersIdle
    /\ MappersIdle
    /\ ThreadsIdle

Result(r) == [raised |-> r.raised, value |-> r.value]

\* the clock advances between two calls
Tick ==
    /\ now < MaxTime
    /\ now' = now + 1
    /\ op' = [name |-> "tick", key |-> None, value |-> None]
    /\ ret' = [raised |-> FALSE, value |-> None]
    /\ refret' = [raised |-> FALSE, value |-> None]
    /\ pre' = cache
    /\ UNCHANGED <<ttl, cache, written, ref>>
    /\ UNCHANGED <<handlervars, mappervars, threadvars>>

Get(key) ==
    LET r == get(cache, key, now)
        rr == get(ref, key, now) IN
    /\ cache' = r.cache
    /\ ret' = Result(r)
    /\ ref' = rr.cache
    /\ refret' = Result(rr)
    /\ op' = [name |-> "get", key |-> key, value |-> None]
    /\ pre' = cache
    /\ UNCHANGED <<ttl, now, written>>
    /\ UNCHANGED <<handlervars, mappervars, threadvars>>

Set(key, value) ==
    LET r == set(cache, key, value, now, ttl)
        rr == set(ref, key, value, now, ttl) IN
    /\ cache' = r.cache
    /\ ret' = Result(r)
    /\ ref' = rr.cache
    /\ refret' = Result(rr)
    /\ op' = [name |-> "set", key |-> key, value |-> value]
    /\ pre' = cache
    /\ written' = [written EXCEPT ![key] = [data |-> value, at |-> now]]
    /\ UNCHANGED <<ttl, now>>
    /\ UNCHANGED <<handlervars, mappervars, threadvars>>

Delete(key) ==
    LET r == delete(cache, key)
        rr == delete(ref, key) IN
    /\ cache' = r.cache
    /\ ret' = Result(r)
    /\ ref' = rr.cache
    /\ refret' = Result(rr)
    /\ op' = [name |-> "delete", key |-> key, value |-> None]
    /\ pre' = cache
    /\ written' = [written EXCEPT ![key] = NoWrite]
    /\ UNCHANGED <<ttl, now>>
    /\ UNCHANGED <<handlervars, mappervars, threadvars>>

Clear ==
    LET r == clear(cache)
        rr == clear(ref) IN
    /\ cache' = r.cache
    /\ ret' = Result(r)
    /\ ref' = rr.cache
    /\ refret' = Result(rr)
    /\ op' = [name |-> "clear", key |-> None, value |-> None]
    /\ pre' = cache
    /\ written' = [k \in Keys |-> NoWrite]
    /\ UNCHANGED <<ttl, now>>
    /\ UNCHANGED <<handlervars, mappervars, threadvars>>

\* the reference run ref does not receive this call
CleanupExpired ==
    LET r == cleanup_expired(cache, now) IN
    /\ cache' = r.cache
    /\ ret' = Result(r)
    /\ refret' = [raised |-> FALSE, value |-> None]
    /\ op' = [name |-> "cleanup_expired", key |-> None, value |-> None]
    /\ pre' = cache
    /\ UNCHANGED <<ttl, now, written, ref>>
    /\ UNCHANGED <<handlervars, mappervars, threadvars>>

Size ==
    LET r == size(cache) IN
    /\ cache' = r.cache
    /\ ret' = Result(r)
    /\ refret' = [raised |-> FALSE, value |-> None]
    /\ op' = [name |-> "size", key |-> None, value |-> None]
    /\ pre' = cache
    /\ UNCHANGED <<ttl, now, written, ref>>
    /\ UNCHANGED <<handlervars, mappervars, threadvars>>

Stats ==
    LET r == stats(cache, now, ttl) IN
    /\ cache' = r.cache
    /\ ret' = Result(r)
    /\ refret' = [raised |-> FALSE, value |-> None]
    /\ op' = [name |-> "stats", key |-> None, value |-> None]
    /\ pre' = cache
    /\ UNCHANGED <<ttl, now, written, ref>>
    /\ UNCHANGED <<handlervars, mappervars, threadvars>>

Next ==
    \/ Tick
    \/ \E key \in Keys : Get(key)
    \/ \E key \in Keys, value \in Values : Set(key, value)
    \/ \E key \in Keys : Delete(key)
    \/ Clear
    \/ CleanupExpired
    \/ Size
    \/ Stats

Spec == Init /\ [][Next]_vars

(* ======================= claims about the cache ======================= *)

\* C1: after set(k, v), a get(k) issued while the TTL has not elapsed
\* (now <= time of the set + ttl) and with no set/delete/clear on k in
\* between returns exactly v, whatever was done to other keys meanwhile.
C1_GetAfterSet ==
    (op.name = "get" /\ written[op.key] # NoWrite
        /\ now <= written[op.key].at + ttl)
    => (~ret.raised /\ ret.value = written[op.key].data)

\* a get that hits k after a later set on another key
C1_Witness ==
    /\ op.name = "get"
    /\ written[op.key] # NoWrite
    /\ now > written[op.key].at
    /\ now <= written[op.key].at + ttl
    /\ \E k2 \in Keys \ {op.key} :
          written[k2] # NoWrite /\ written[k2].at > written[op.key].at
    /\ ret.value = written[op.key].data

\* C2 as stated: every stored entry with expires_at <= now, the boundary
\* instant now = expires_at included, is a miss for get.
C2_Original ==
    (op.name = "get" /\ op.key \in DOMAIN pre
        /\ pre[op.key].expires_at <= now) => ret.value = None

\* C2 amended: every stored entry with expires_at < now is a miss for get
\* although it is still physically stored; at the boundary instant
\* now = expires_at get still returns the stored value.
C2_Amended ==
    \A k \in DOMAIN cache :
        /\ cache[k].expires_at < now =>
              get(cache, k, now).value = None
        /\ cache[k].expires_at = now =>
              get(cache, k, now).value = cache[k].data
        /\ (op.name = "get" /\ op.key \in DOMAIN pre
              /\ pre[op.key].expires_at < now) => ret.value = None

\* a get has just missed on an entry that was stored but expired, while
\* another expired entry is still stored
C2_Witness ==
    /\ op.name = "get"
    /\ op.key \in DOMAIN pre
    /\ pre[op.key].expires_at < now
    /\ ret.value = None
    /\ \E k \in DOMAIN cache : cache[k].expires_at < now

\* C3: once now > expires_at of k, the first get(k) returns absent and
\* removes the entry (one entry fewer is stored); a second get(k), then or
\* at any later time, returns absent and leaves the cache as it is.
C3_ExpiredGetEvictsOnce ==
    (op.name = "get" /\ op.key \in DOMAIN pre
        /\ now > pre[op.key].expires_at)
    => /\ ~ret.raised
       /\ ret.value = None
       /\ op.key \notin DOMAIN cache
       /\ Cardinality(DOMAIN cache) = Cardinality(DOMAIN pre) - 1
       /\ \A k \in DOMAIN cache : cache[k] = pre[k]
       /\ \A t \in now..MaxTime :
             get(cache, op.key, t) = Returned(None, cache)

C3_Witness ==
    /\ op.name = "get"
    /\ op.key \in DOMAIN pre
    /\ now > pre[op.key].expires_at
    /\ op.key \notin DOMAIN cache
    /\ DOMAIN cache # {}

C5_CleanupTransparent ==
    /\ op.name = "get" => ret = refret
    /\ \A k \in Keys : Result(get(cache, k, now)) = Result(get(ref, k, now))
    /\ op.name = "cleanup_expired" =>
          \A k \in (DOMAIN pre) \ (DOMAIN cache) :
              get(pre, k, now).value = None

\* a get that hits after a cleanup made the two runs differ physically
C5_Witness ==
    /\ op.name = "get"
    /\ ret.value # None
    /\ DOMAIN cache # DOMAIN ref

\* C6: get on a key that is not stored (never set, or removed by delete or
\* clear) returns None without raising and changes nothing; no get raises.
C6_GetAbsentKey ==
    /\ op.name = "get" => ~ret.raised
    /\ (op.name = "get" /\ op.key \notin DOMAIN pre) =>
          (ret.value = None /\ cache = pre)
    /\ \A k \in Keys \ DOMAIN cache :
          get(cache, k, now) = Returned(None, cache)

\* a get on a key that has no set in force, while another key is stored
C6_Witness ==
    /\ op.name = "get"
    /\ written[op.key] = NoWrite
    /\ op.key \notin DOMAIN pre
    /\ ret.value = None
    /\ DOMAIN cache # {}

\* C7: delete(k) returns true iff an entry for k was stored just before
\* the call, expired or not, and afterwards no entry for k is stored; the
\* other entries stay.
C7_DeleteReturn ==
    op.name = "delete" =>
       /\ ~ret.raised
       /\ (ret.value = TRUE) <=> (op.key \in DOMAIN pre)
       /\ ret.value \in BOOLEAN
       /\ op.key \notin DOMAIN cache
       /\ DOMAIN cache = (DOMAIN pre) \ {op.key}

\* a delete of an entry that had already expired returned true
C7_Witness ==
    /\ op.name = "delete"
    /\ op.key \in DOMAIN pre
    /\ now > pre[op.key].expires_at
    /\ ret.value = TRUE

\* C8: set(k, v) on a key that already has an entry replaces the value,
\* sets created_at to now and expires_at to now + ttl, so that get returns
\* v up to now + ttl, and the number of stored entries stays the same.
C8_Overwrite ==
    (op.name = "set" /\ op.key \in DOMAIN pre) =>
       /\ cache[op.key] = [data |-> op.value, expires_at |-> now + ttl,
                           created_at |-> now]
       /\ Cardinality(DOMAIN cache) = Cardinality(DOMAIN pre)
       /\ \A t \in now..(now + ttl) :
             get(cache, op.key, t).value = op.value

\* an overwrite, later than the first set, of an entry by another value
C8_Witness ==
    /\ op.name = "set"
    /\ op.key \in DOMAIN pre
    /\ pre[op.key].data # op.value
    /\ pre[op.key].created_at < now
    /\ cache[op.key].expires_at > pre[op.key].expires_at

LiveKeys(d, t) == {k \in DOMAIN d : t <= d[k].expires_at}
ExpiredKeys(d, t) == {k \in DOMAIN d : t > d[k].expires_at}

\* C9: in every state stats() reports active + expired = total, total is
\* size(), active is the number of entries get would return and expired the
\* number of the others, so no entry is counted on both sides.
C9_StatsPartition ==
    LET s == stats(cache, now, ttl).value IN
    /\ s.active_entries + s.expired_entries = s.total_entries
    /\ s.total_entries = size(cache).value
    /\ s.active_entries = Cardinality(LiveKeys(cache, now))
    /\ s.expired_entries = Cardinality(ExpiredKeys(cache, now))
    /\ s.active_entries >= 0
    /\ op.name = "stats" => (ret.value = s /\ cache = pre)

\* stats was called with one live and one expired entry stored
C9_Witness ==
    /\ op.name = "stats"
    /\ ret.value.active_entries = 1
    /\ ret.value.expired_entries = 1
    /\ ret.value.total_entries = 2

\* C10: size() is the number of stored entries, the expired ones that no
\* get, delete, clear or cleanup_expired removed included, and the clock
\* advancing does not change it.
C10_SizeCountsStored ==
    /\ size(cache).value =
          Cardinality(LiveKeys(cache, now))
             + Cardinality(ExpiredKeys(cache, now))
    /\ op.name = "size" =>
          (~ret.raised /\ ret.value = Cardinality(DOMAIN pre) /\ cache = pre)
    /\ op.name = "tick" =>
          (cache = pre /\ size(cache).value = Cardinality(DOMAIN pre))

\* size was called while an expired entry was still stored
C10_Witness ==
    /\ op.name = "size"
    /\ ret.value = 2
    /\ ExpiredKeys(cache, now) # {}

\* what a read leaves alone, as seen after the call
ReadsLeaveState ==
    /\ (op.name = "get" /\ op.key \in DOMAIN pre
           /\ ~is_expired(pre[op.key], now)) => cache = pre
    /\ op.name \in {"size", "stats"} => cache = pre
    /\ op.name = "stats" => ret.value.ttl_seconds = ttl

\* C27: get on a live entry, size() and stats() leave the cache unchanged:
\* no entry is added or removed and no expires_at is extended; and no
\* operation changes the ttl given at construction.
C27_ReadsPure == []ReadsLeaveState /\ [][ttl' = ttl]_vars

\* a hit on a live entry after the clock has advanced
C27_Witness ==
    /\ op.name = "get"
    /\ op.key \in DOMAIN pre
    /\ ret.value # None
    /\ now > pre[op.key].created_at

\* C28: set(k, v), delete(k) and get(k) change at most the entry of k:
\* every other key is stored before exactly if it is stored after, with
\* the same value, created_at and expires_at.
C28_OtherKeysUntouched ==
    op.name \in {"set", "delete", "get"} =>
        \A k \in Keys \ {op.key} :
            /\ k \in DOMAIN cache <=> k \in DOMAIN pre
            /\ k \in DOMAIN pre => cache[k] = pre[k]

\* a delete of a stored key while another key holds an expired entry
C28_Witness ==
    /\ op.name = "delete"
    /\ ret.value = TRUE
    /\ \E k \in Keys \ {op.key} :
          k \in DOMAIN cache /\ is_expired(cache[k], now)

(* ====================================================================== *)
(* The request handlers of app.py over the client of weather_api.py.      *)
(*                                                                        *)
(* One request is one atomic step.  The module-level cache of app.py is   *)
(* the variable cache, built with CACHE_TTL.  The upstream is a black box:*)
(* each requests.get ends in one of Outcomes, chosen by the environment.  *)
(* History variables: req and resp are the last request and all that its  *)
(* handler did; fetched maps a request to its last successful fetch; used *)
(* counts the requests and clock advances so far.                         *)
(* ====================================================================== *)

(* ---- bounds ---- *)
MaxRequests == 3
MaxTicks == 1

(* ---- program constants ---- *)
CACHE_TTL == 600
SEARCH_TTL == 300
AQI_TTL == 1800
MIN_QUERY_LEN == 2

\* the clock advances by one of these between two requests
Steps == {600, 601}

\* Python truthiness of an optional string argument or of a cached value
truthy(x) == x # None /\ x # ""

\* float(s): the strings of the model that float() accepts; the value is
\* written as Python prints it (repr); any other string raises ValueError
FloatStrings == {"1.5", "1.50", "2.5"}
is_float(s) == s \in FloatStrings
float(s) == IF s \in {"1.5", "1.50"} THEN "1.5" ELSE "2.5"

\* Python str methods, computed character by character
Upper == "ABCDEFGHIJKLMNOPQRSTUVWXYZ"
Lower == "abcdefghijklmnopqrstuvwxyz"
Whitespace == {" ", "\t", "\n"}

char(s, i) == SubSeq(s, i, i)

\* the cased letters and their counterparts
to_lower == [c \in {char(Upper, i) : i \in 1..Len(Upper)} |->
                char(Lower, CHOOSE i \in 1..Len(Upper) : char(Upper, i) = c)]

to_upper == [c \in {char(Lower, i) : i \in 1..Len(Lower)} |->
                char(Upper, CHOOSE i \in 1..Len(Lower) : char(Lower, i) = c)]

lower_char(c) == IF c \in DOMAIN to_lower THEN to_lower[c] ELSE c

upper_char(c) == IF c \in DOMAIN to_upper THEN to_upper[c] ELSE c

is_alpha(c) == c \in DOMAIN to_lower \/ c \in DOMAIN to_upper

\* str.lower()
RECURSIVE lower(_)
lower(s) ==
    IF s = "" THEN ""
    ELSE lower_char(char(s, 1)) \o lower(SubSeq(s, 2, Len(s)))

RECURSIVE lstrip(_, _)
lstrip(s, chars) ==
    IF s # "" /\ char(s, 1) \in chars
    THEN lstrip(SubSeq(s, 2, Len(s)), chars)
    ELSE s

RECURSIVE rstrip(_, _)
rstrip(s, chars) ==
    IF s # "" /\ char(s, Len(s)) \in chars
    THEN rstrip(SubSeq(s, 1, Len(s) - 1), chars)
    ELSE s

\* str.strip(chars): removes from both ends every character of chars
str_strip(s, chars) == rstrip(lstrip(s, chars), chars)

\* str.strip(): removes whitespace from both ends
strip(s) == str_strip(s, Whitespace)

(* ---- services/weather_api.py ---- *)
Outcomes == {"200", "200-incomplete", "401", "404", "429", "500",
             "Timeout", "ConnectionError"}
Failures == {"401", "404", "429", "500", "Timeout", "ConnectionError"}

\* response.status_code; 0 when requests.get raised instead of returning
status_code(outcome) ==
    CASE outcome \in {"200", "200-incomplete"} -> 200
      [] outcome = "401" -> 401
      [] outcome = "404" -> 404
      [] outcome = "429" -> 429
      [] outcome = "500" -> 500
      [] OTHER -> 0

\* raise ValueError(...): template is the text of the raise statement,
\* message the text after formatting
RaiseValueError(template, message) ==
    [raised |-> TRUE, type |-> "ValueError", template |-> template,
     message |-> message, calls |-> 1]

\* a KeyError of the mapping code on a payload that lacks a required field
RaiseKeyError ==
    [raised |-> TRUE, type |-> "KeyError", template |-> "KeyError",
     message |-> "KeyError", calls |-> 1]

ApiReturn(v) == [raised |-> FALSE, value |-> v, calls |-> 1]

\* the parsed JSON of a 200 response
response_json(endpoint, outcome) ==
    [endpoint |-> endpoint, complete |-> (outcome = "200")]

\* _make_request without the final status_code != 200 branch
_make_request_unchecked(endpoint, outcome) ==
    IF outcome = "Timeout"
    THEN RaiseValueError("Request timeout - please try again",
                         "Request timeout - please try again")
    ELSE IF outcome = "ConnectionError"
    THEN RaiseValueError("Network error, please check connection",
                         "Network error, please check connection")
    ELSE IF status_code(outcome) = 401
    THEN RaiseValueError("Invalid or missing API key",
                         "Invalid or missing API key")
    ELSE IF status_code(outcome) = 404
    THEN RaiseValueError("City not found", "City not found")
    ELSE IF status_code(outcome) = 429
    THEN RaiseValueError("Rate limit reached, try again later",
                         "Rate limit reached, try again later")
    ELSE ApiReturn([endpoint |-> endpoint, complete |-> TRUE])

_make_request(endpoint, outcome) ==
    IF outcome = "Timeout"
    THEN RaiseValueError("Request timeout - please try again",
                         "Request timeout - please try again")
    ELSE IF outcome = "ConnectionError"
    THEN RaiseValueError("Network error, please check connection",
                         "Network error, please check connection")
    ELSE IF status_code(outcome) = 401
    THEN RaiseValueError("Invalid or missing API key",
                         "Invalid or missing API key")
    ELSE IF status_code(outcome) = 404
    THEN RaiseValueError("City not found", "City not found")
    ELSE IF status_code(outcome) = 429
    THEN RaiseValueError("Rate limit reached, try again later",
                         "Rate limit reached, try again later")
    ELSE IF status_code(outcome) # 200
    THEN RaiseValueError("API error: {status_code}",
                         "API error: " \o outcome)
    ELSE ApiReturn(response_json(endpoint, outcome))

\* the normalized record of a successful fetch, as the JSON text of what
\* was asked and when
Record(kind, query, units, t) ==
    "{" \o kind \o "?" \o query \o "&units=" \o units
        \o " at " \o ToString(t) \o "}"

\* a mapper that reads every field with .get and a default
api_weather_defaults(endpoint, q, lat, lon, units, outcome, t) ==
    IF ~truthy(q) /\ ~(lat # None /\ lon # None)
    THEN [RaiseValueError(
            "Either city name (q) or coordinates (lat, lon) must be provided",
            "Either city name (q) or coordinates (lat, lon) must be provided")
          EXCEPT !.calls = 0]
    ELSE LET data == _make_request(endpoint, outcome) IN
         IF data.raised THEN data
         ELSE ApiReturn(Record(endpoint,
                               IF truthy(q) THEN "q=" \o q
                               ELSE "lat=" \o lat \o "&lon=" \o lon,
                               units, t))

\* get_current_weather and get_forecast share this shape; endpoint is
\* 'weather' or 'forecast'
api_weather(endpoint, q, lat, lon, units, outcome, t) ==
    IF ~truthy(q) /\ ~(lat # None /\ lon # None)
    THEN [RaiseValueError(
            "Either city name (q) or coordinates (lat, lon) must be provided",
            "Either city name (q) or coordinates (lat, lon) must be provided")
          EXCEPT !.calls = 0]
    ELSE LET data == _make_request(endpoint, outcome) IN
         IF data.raised THEN data
         ELSE IF ~data.value.complete THEN RaiseKeyError
         ELSE ApiReturn(Record(endpoint,
                               IF truthy(q) THEN "q=" \o q
                               ELSE "lat=" \o lat \o "&lon=" \o lon,
                               units, t))

api_get_current_weather(q, lat, lon, units, outcome, t) ==
    api_weather("weather", q, lat, lon, units, outcome, t)

api_get_forecast(q, lat, lon, units, outcome, t) ==
    api_weather("forecast", q, lat, lon, units, outcome, t)

api_search_locations(query, outcome, t) ==
    IF outcome = "Timeout"
    THEN RaiseValueError("Search timeout - please try again",
                         "Search timeout - please try again")
    ELSE IF outcome = "ConnectionError"
    THEN RaiseValueError("Network error, please check connection",
                         "Network error, please check connection")
    ELSE IF status_code(outcome) = 401
    THEN RaiseValueError("Invalid or missing API key",
                         "Invalid or missing API key")
    ELSE IF status_code(outcome) # 200
    THEN RaiseValueError("Geocoding API error: {status_code}",
                         "Geocoding API error: " \o outcome)
    ELSE IF ~response_json("direct", outcome).complete THEN RaiseKeyError
    ELSE ApiReturn(Record("direct", "q=" \o query, None, t))

api_get_air_pollution(lat, lon, outcome, t) ==
    IF outcome = "Timeout"
    THEN RaiseValueError("Air pollution data timeout - please try again",
                         "Air pollution data timeout - please try again")
    ELSE IF outcome = "ConnectionError"
    THEN RaiseValueError("Network error, please check connection",
                         "Network error, please check connection")
    ELSE IF status_code(outcome) = 401
    THEN RaiseValueError("Invalid or missing API key",
                         "Invalid or missing API key")
    ELSE IF status_code(outcome) # 200
    THEN RaiseValueError("Air pollution API error: {status_code}",
                         "Air pollution API error: " \o outcome)
    ELSE IF ~response_json("air_pollution", outcome).complete
    THEN RaiseKeyError
    ELSE ApiReturn(Record("air_pollution",
                       "lat=" \o lat \o "&lon=" \o lon, None, t))

(* ---- app.py ---- *)
NoCall == [raised |-> FALSE, value |-> None, calls |-> 0]
NoLocal == [k \in {} |-> None]

\* what a handler did: the HTTP status and body it returned, the module
\* cache afterwards, the result of its call of the client (NoCall when it
\* made none), the number of lookups in the module cache, whether the body
\* came from that cache, and the cache object it created locally
Handled(status, body, c, api, gets, hit, local) ==
    [status |-> status, body |-> body, cache |-> c, api |-> api,
     gets |-> gets, hit |-> hit, local |-> local]

\* jsonify({'error': message})
Error(message) == "{error: " \o message \o "}"

\* request.args.get('units', 'metric')
units_arg(r) == IF r.units = None THEN "metric" ELSE r.units

\* keys without the kind of request in front
weather_cache_key_no_kind(kind, city, lat, lon, units) ==
    IF truthy(city)
    THEN city \o ":" \o units
    ELSE lat \o "," \o lon \o ":" \o units

\* the f-strings that build the cache keys
weather_cache_key(kind, city, lat, lon, units) ==
    IF truthy(city)
    THEN kind \o ":" \o city \o ":" \o units
    ELSE kind \o ":" \o lat \o "," \o lon \o ":" \o units

search_cache_key(query) == "search:" \o lower(query)

aqi_cache_key(lat, lon) == "aqi:" \o lat \o "," \o lon

\* the validation of the weather handlers with one coordinate enough
has_location_any(city, lat, lon) ==
    truthy(city) \/ truthy(lat) \/ truthy(lon)

\* not city and not (lat and lon), negated
has_location(city, lat, lon) == truthy(city) \/ (truthy(lat) /\ truthy(lon))

\* get_current_weather (kind "current", endpoint 'weather') and
\* get_weather_forecast (kind "forecast", endpoint 'forecast')
weather_route(kind, endpoint, failed, c, r, outcome, t) ==
    LET city == r.city
        lat == r.lat
        lon == r.lon
        units == units_arg(r)
    IN
    IF ~has_location(city, lat, lon)
    THEN Handled(400,
                 Error("Either city or lat/lon coordinates are required"),
                 c, NoCall, 0, FALSE, NoLocal)
    ELSE
    LET cache_key == weather_cache_key(kind, city, lat, lon, units)
        cached == get(c, cache_key, t)
    IN
    IF truthy(cached.value)
    THEN Handled(200, cached.value, cached.cache, NoCall, 1, TRUE, NoLocal)
    ELSE IF truthy(city)
    THEN LET data == api_weather(endpoint, city, None, None, units,
                                 outcome, t) IN
         IF data.raised /\ data.type = "ValueError"
         THEN Handled(400, Error(data.message), cached.cache, data, 1,
                      FALSE, NoLocal)
         ELSE IF data.raised
         THEN Handled(500, Error(failed), cached.cache, data, 1, FALSE,
                      NoLocal)
         ELSE Handled(200, data.value,
                      set(cached.cache, cache_key, data.value, t,
                          CACHE_TTL).cache,
                      data, 1, FALSE, NoLocal)
    ELSE IF ~is_float(lat) \/ ~is_float(lon)
    THEN Handled(400, Error("Invalid latitude or longitude coordinates"),
                 cached.cache, NoCall, 1, FALSE, NoLocal)
    ELSE LET data == api_weather(endpoint, None, float(lat), float(lon),
                                 units, outcome, t) IN
         \* the call is inside the try of the float conversions
         IF data.raised /\ data.type \in {"ValueError", "TypeError"}
         THEN Handled(400,
                      Error("Invalid latitude or longitude coordinates"),
                      cached.cache, data, 1, FALSE, NoLocal)
         ELSE IF data.raised
         THEN Handled(500, Error(failed), cached.cache, data, 1, FALSE,
                      NoLocal)
         ELSE Handled(200, data.value,
                      set(cached.cache, cache_key, data.value, t,
                          CACHE_TTL).cache,
                      data, 1, FALSE, NoLocal)

app_get_current_weather(c, r, outcome, t) ==
    weather_route("current", "weather", "Failed to fetch weather data",
                  c, r, outcome, t)

app_get_weather_forecast(c, r, outcome, t) ==
    weather_route("forecast", "forecast", "Failed to fetch forecast data",
                  c, r, outcome, t)

app_search_locations(c, r, outcome, t) ==
    LET query == r.q IN
    IF ~truthy(query) \/ Len(strip(query)) < MIN_QUERY_LEN
    THEN Handled(400, Error("Search query must be at least 2 characters"),
                 c, NoCall, 0, FALSE, NoLocal)
    ELSE
    LET cache_key == search_cache_key(query)
        cached == get(c, cache_key, t)
    IN
    IF truthy(cached.value)
    THEN Handled(200, cached.value, cached.cache, NoCall, 1, TRUE, NoLocal)
    ELSE LET locations == api_search_locations(strip(query), outcome, t) IN
         IF locations.raised /\ locations.type = "ValueError"
         THEN Handled(400, Error(locations.message), cached.cache,
                      locations, 1, FALSE, NoLocal)
         ELSE IF locations.raised
         THEN Handled(500, Error("Failed to search locations"),
                      cached.cache, locations, 1, FALSE, NoLocal)
         ELSE \* search_cache = Cache(ttl=300); search_cache.set(...)
              Handled(200, locations.value, cached.cache, locations, 1,
                      FALSE,
                      set(NoLocal, cache_key, locations.value, t,
                          SEARCH_TTL).cache)

app_get_air_quality(c, r, outcome, t) ==
    LET lat == r.lat
        lon == r.lon
    IN
    IF ~truthy(lat) \/ ~truthy(lon)
    THEN Handled(400, Error("Latitude and longitude are required"),
                 c, NoCall, 0, FALSE, NoLocal)
    ELSE IF ~is_float(lat) \/ ~is_float(lon)
    THEN Handled(400, Error("Invalid latitude or longitude coordinates"),
                 c, NoCall, 0, FALSE, NoLocal)
    ELSE
    LET cache_key == aqi_cache_key(lat, lon)
        cached == get(c, cache_key, t)
    IN
    IF truthy(cached.value)
    THEN Handled(200, cached.value, cached.cache, NoCall, 1, TRUE, NoLocal)
    ELSE LET data == api_get_air_pollution(float(lat), float(lon),
                                           outcome, t) IN
         IF data.raised /\ data.type = "ValueError"
         THEN Handled(400, Error(data.message), cached.cache, data, 1,
                      FALSE, NoLocal)
         ELSE IF data.raised
         THEN Handled(500, Error("Failed to fetch air quality data"),
                      cached.cache, data, 1, FALSE, NoLocal)
         ELSE \* aqi_cache = Cache(ttl=1800); aqi_cache.set(...)
              Handled(200, data.value, cached.cache, data, 1, FALSE,
                      set(NoLocal, cache_key, data.value, t, AQI_TTL).cache)

(* ---- the requests of the model ---- *)
\* query arguments of /api/weather/current: by city, by a city whose name
\* reads like a coordinate pair, by coordinates, by malformed coordinates,
\* with nothing
CurrentArgs ==
    { [city |-> "Rome", lat |-> None, lon |-> None, units |-> "metric"],
      [city |-> "Rome", lat |-> None, lon |-> None, units |-> "imperial"],
      [city |-> "1.5,2.5", lat |-> None, lon |-> None, units |-> None],
      [city |-> None, lat |-> "1.5", lon |-> "2.5", units |-> "metric"],
      [city |-> None, lat |-> "abc", lon |-> "2.5", units |-> "metric"],
      [city |-> None, lat |-> None, lon |-> None, units |-> None] }

\* query arguments of /api/weather/forecast: by city, with one coordinate
\* only
ForecastArgs ==
    { [city |-> "Rome", lat |-> None, lon |-> None, units |-> "metric"],
      [city |-> None, lat |-> None, lon |-> "2.5", units |-> "metric"] }

SearchQueries == {"Rome", "rome", " R", None}

AqiArgs ==
    { [lat |-> "1.5", lon |-> "2.5"],
      [lat |-> "abc", lon |-> "2.5"],
      [lat |-> None, lon |-> "2.5"] }

WeatherRequest(kind, a) ==
    [kind |-> kind, city |-> a.city, lat |-> a.lat, lon |-> a.lon,
     units |-> a.units, q |-> None]

SearchRequestOf(q) ==
    [kind |-> "search", city |-> None, lat |-> None, lon |-> None,
     units |-> None, q |-> q]

AqiRequest(a) ==
    [kind |-> "aqi", city |-> None, lat |-> a.lat, lon |-> a.lon,
     units |-> None, q |-> None]

(* ---- state machine of the handlers ---- *)
AppInit ==
    /\ ttl = CACHE_TTL
    /\ cache = [k \in {} |-> None]
    /\ now = 0
    /\ op = [name |-> "init", key |-> None, value |-> None]
    /\ ret = [raised |-> FALSE, value |-> None]
    /\ pre = [k \in {} |-> None]
    /\ written = [k \in Keys |-> NoWrite]
    /\ ref = [k \in {} |-> None]
    /\ refret = [raised |-> FALSE, value |-> None]
    /\ HandlersIdle
    /\ MappersIdle
    /\ ThreadsIdle

NoFetch == [at |-> -1, data |-> None]
LastFetch(r) == IF r \in DOMAIN fetched THEN fetched[r] ELSE NoFetch

\* the bookkeeping common to the four handlers: h is what the handler did
\* (the upstream's outcome exists only when the handler calls it; "200"
\* stands for it otherwise)
Serve(r, outcome, h) ==
    /\ used.requests < MaxRequests
    /\ h.api.calls = 0 => outcome = "200"
    /\ used' = [used EXCEPT !.requests = @ + 1]
    /\ req' = r
    /\ resp' = [status |-> h.status, body |-> h.body, api |-> h.api,
                gets |-> h.gets, hit |-> h.hit, local |-> h.local,
                outcome |-> IF h.api.calls = 0 THEN "none" ELSE outcome,
                prior |-> LastFetch(r)]
    /\ pre' = cache
    /\ cache' = h.cache
    /\ fetched' =
          IF h.api.calls = 1 /\ ~h.api.raised
          THEN [x \in (DOMAIN fetched) \cup {r} |->
                   IF x = r THEN [at |-> now, data |-> h.api.value]
                   ELSE fetched[x]]
          ELSE fetched
    /\ UNCHANGED <<ttl, now, op, ret, written, ref, refret, mappervars,
                   threadvars>>

CurrentWeatherRequest ==
    \E a \in CurrentArgs, outcome \in Outcomes :
        LET r == WeatherRequest("current", a) IN
        Serve(r, outcome, app_get_current_weather(cache, r, outcome, now))

ForecastRequest ==
    \E a \in ForecastArgs, outcome \in Outcomes :
        LET r == WeatherRequest("forecast", a) IN
        Serve(r, outcome, app_get_weather_forecast(cache, r, outcome, now))

SearchRequest ==
    \E q \in SearchQueries, outcome \in Outcomes :
        LET r == SearchRequestOf(q) IN
        Serve(r, outcome, app_search_locations(cache, r, outcome, now))

AirQualityRequest ==
    \E a \in AqiArgs, outcome \in Outcomes :
        LET r == AqiRequest(a) IN
        Serve(r, outcome, app_get_air_quality(cache, r, outcome, now))

\* time passes between two requests
Advance ==
    /\ used.ticks < MaxTicks
    /\ \E d \in Steps : now' = now + d
    /\ used' = [used EXCEPT !.ticks = @ + 1]
    /\ req' = NoRequest
    /\ resp' = NoResponse
    /\ pre' = cache
    /\ UNCHANGED <<ttl, cache, op, ret, written, ref, refret,
                   fetched, mappervars, threadvars>>

AppNext ==
    \/ CurrentWeatherRequest
    \/ ForecastRequest
    \/ SearchRequest
    \/ AirQualityRequest
    \/ Advance

SpecApp == AppInit /\ [][AppNext]_vars

(* ======================= claims about the handlers ===================== *)

IsWeather(r) == r.kind \in {"current", "forecast"}
EndpointOf(r) == IF r.kind = "current" THEN "weather" ELSE "forecast"

\* the time to live the spec gives each kind of request
KindTTL(kind) ==
    CASE kind = "search" -> SEARCH_TTL
      [] kind = "aqi" -> AQI_TTL
      [] OTHER -> CACHE_TTL

\* the cache key the handler of r derives
KeyOf(r) ==
    CASE r.kind = "search" -> search_cache_key(r.q)
      [] r.kind = "aqi" -> aqi_cache_key(r.lat, r.lon)
      [] OTHER -> weather_cache_key(r.kind, r.city, r.lat, r.lon,
                                    units_arg(r))

\* the exception the client raises for this kind of request when the
\* upstream ends in outcome
ClientError(r, outcome) ==
    CASE r.kind = "search" -> api_search_locations(strip(r.q), outcome, now)
      [] r.kind = "aqi" ->
            api_get_air_pollution(float(r.lat), float(r.lon), outcome, now)
      [] OTHER -> _make_request(EndpointOf(r), outcome)

\* C11: a search or air-quality request identical to one that fetched
\* successfully, made within that kind's TTL (300 s, 1800 s) of the fetch,
\* is served from the cache with the fetched record and no upstream call.
C11_SearchAqiCached ==
    (req.kind \in {"search", "aqi"} /\ resp.prior # NoFetch
        /\ now <= resp.prior.at + KindTTL(req.kind))
    => (resp.api.calls = 0 /\ resp.hit /\ resp.body = resp.prior.data)

\* C12: a current or forecast request identical to one that fetched
\* successfully is, within 600 s of the fetch, answered with the stored
\* record and no upstream call; once the 600 s have elapsed the next
\* identical request fetches upstream again.
C12_WeatherCached ==
    (IsWeather(req) /\ resp.prior # NoFetch) =>
       /\ now <= resp.prior.at + CACHE_TTL =>
             (resp.api.calls = 0 /\ resp.status = 200
                 /\ resp.body = resp.prior.data)
       /\ now > resp.prior.at + CACHE_TTL => resp.api.calls = 1

C14_NoKeyCollision ==
    (req.kind # "none" /\ resp.hit) =>
       (resp.prior # NoFetch /\ resp.body = resp.prior.data)

\* C15: for a weather request by well-formed coordinates, an upstream
\* failure is reported with the message of that failure, as for a request
\* by city, and not as invalid coordinates.
C15_CoordFailureKind ==
    (IsWeather(req) /\ ~truthy(req.city)
        /\ is_float(req.lat) /\ is_float(req.lon)
        /\ resp.outcome \in Failures)
    => /\ resp.status = 400
       /\ resp.body = Error(_make_request(EndpointOf(req),
                                          resp.outcome).message)
       /\ resp.body # Error("Invalid latitude or longitude coordinates")

\* C16: for every endpoint, each upstream failure category is raised as an
\* error of its own: no other category raises the same error for that
\* endpoint, and no failure yields a normal result.
C16_OwnErrorKind ==
    (req.kind # "none" /\ resp.outcome \in Failures) =>
       /\ resp.api.raised
       /\ resp.status # 200
       /\ \A o \in Failures \ {resp.outcome} :
             LET e == ClientError(req, o) IN
             <<e.type, e.template>> # <<resp.api.type, resp.api.template>>

C18_MissingLocation ==
    (IsWeather(req) /\ ~truthy(req.city)
        /\ ~(truthy(req.lat) /\ truthy(req.lon)))
    => /\ resp.status = 400
       /\ resp.body =
             Error("Either city or lat/lon coordinates are required")
       /\ resp.gets = 0
       /\ resp.api.calls = 0
       /\ cache = pre
       /\ LastFetch(req) = resp.prior
       /\ \A o \in Outcomes :
             LET e == api_weather(EndpointOf(req), None, None, None,
                                  units_arg(req), o, now) IN
             e.raised /\ e.type = "ValueError" /\ e.calls = 0

\* a request with one coordinate only, refused while the cache holds an
\* entry
C18_Witness ==
    /\ IsWeather(req)
    /\ ~truthy(req.city)
    /\ truthy(req.lat) \/ truthy(req.lon)
    /\ ~(truthy(req.lat) /\ truthy(req.lon))
    /\ resp.status = 400
    /\ DOMAIN cache # {}

\* C29: every record a current-weather or forecast request returns from
\* the cache was stored by a successful upstream fetch completed at most
\* 600 seconds earlier; no record older than the TTL is served.
C29_NoStaleRecord ==
    (IsWeather(req) /\ resp.hit) =>
        \E r \in DOMAIN fetched :
            /\ IsWeather(r)
            /\ fetched[r].data = resp.body
            /\ fetched[r].at <= now
            /\ now - fetched[r].at <= CACHE_TTL

\* a record served exactly 600 seconds after its fetch
C29_Witness ==
    /\ IsWeather(req)
    /\ resp.hit
    /\ resp.prior # NoFetch
    /\ resp.body = resp.prior.data
    /\ now = resp.prior.at + CACHE_TTL

\* C30: a request of one kind (current, forecast, search, air quality) is
\* never answered with a record that a request of another kind stored.
C30_KindsIsolated ==
    (req.kind # "none" /\ resp.hit) =>
        /\ \E r \in DOMAIN fetched :
              r.kind = req.kind /\ fetched[r].data = resp.body
        /\ \A r \in DOMAIN fetched :
              fetched[r].data = resp.body => r.kind = req.kind

\* a forecast served from the cache while the cache holds the current
\* weather of the same city and units
C30_Witness ==
    /\ req.kind = "forecast"
    /\ resp.hit
    /\ weather_cache_key("current", req.city, req.lat, req.lon,
                         units_arg(req)) \in DOMAIN cache

(* ====================================================================== *)
(* The mappers of src/services/weather_api.py: the code that turns a      *)
(* decoded upstream payload into the record the handlers return.  They    *)
(* are pure functions of the payload; upstream holds one payload and      *)
(* mapped the result of the mapper applied to it.  Text is computed       *)
(* character by character, dates by calendar arithmetic.                  *)
(* ====================================================================== *)

(* ---- bounds ---- *)
MaxItems == 2

\* dict.get(key, default) on a decoded JSON object
dict_get(d, key, default) == IF key \in DOMAIN d THEN d[key] ELSE default

NotMapped == [endpoint |-> "none"]
Mapped(v) == [raised |-> FALSE, value |-> v]
MapperRaised(type) == [raised |-> TRUE, value |-> type]
Mapping(endpoint, r) ==
    [endpoint |-> endpoint, raised |-> r.raised, value |-> r.value]

(* ---- search_locations: the geocoding list ---- *)
\* f"{item['name']}, {item.get('state', '')} {item['country']}".strip(', ')
display_name(item) ==
    str_strip(item.name \o ", " \o dict_get(item, "state", "") \o " "
                  \o item.country,
              {",", " "})

location(item) ==
    [name |-> item.name,
     country |-> item.country,
     state |-> dict_get(item, "state", ""),
     lat |-> item.lat,
     lon |-> item.lon,
     display_name |-> display_name(item)]

RECURSIVE locations(_)
\* for item in data: locations.append(location)
locations(data) ==
    IF data = <<>> THEN <<>>
    ELSE <<location(Head(data))>> \o locations(Tail(data))

\* geocoding items: with a state, with an empty state, without a state
GeoItems ==
    { [name |-> "Springfield", state |-> "IL", country |-> "US",
       lat |-> "39.8", lon |-> "-89.64"],
      [name |-> "Paris", state |-> "", country |-> "FR",
       lat |-> "48.85", lon |-> "2.35"],
      [name |-> "Rome", country |-> "IT", lat |-> "41.89", lon |-> "12.48"],
      [name |-> "Paris", state |-> "TX", country |-> "US",
       lat |-> "33.66", lon |-> "-95.55"] }

RECURSIVE SeqsUpTo(_, _)
\* the sequences over S of length at most n
SeqsUpTo(S, n) ==
    IF n = 0 THEN {<<>>}
    ELSE LET shorter == SeqsUpTo(S, n - 1) IN
         shorter \cup {Append(q, x) : q \in shorter, x \in S}

GeoPayloads(items) ==
    {[endpoint |-> "direct", data |-> d] : d \in SeqsUpTo(GeoItems, items)}

(* ---- _convert_timestamp ---- *)
MaxPrefix == 3
MaxTail == 7

SecondsPerDay == 24 * 60 * 60

pad(n, width) ==
    LET digits == ToString(n) IN
    IF Len(digits) >= width THEN digits
    ELSE SubSeq("0000", 1, width - Len(digits)) \o digits

\* datetime.date of a day number counted from 1970-01-01 (proleptic
\* Gregorian calendar)
civil_from_days(days) ==
    LET z == days + 719468
        era == z \div 146097
        doe == z - era * 146097
        yoe == (doe - doe \div 1460 + doe \div 36524 - doe \div 146096)
                   \div 365
        doy == doe - (365 * yoe + yoe \div 4 - yoe \div 100)
        mp == (5 * doy + 2) \div 153
        m == IF mp < 10 THEN mp + 3 ELSE mp - 9
    IN [year |-> yoe + era * 400 + (IF m <= 2 THEN 1 ELSE 0),
        month |-> m,
        day |-> doy - (153 * mp + 2) \div 5 + 1]

\* date.isoformat()
isodate(days) ==
    LET d == civil_from_days(days) IN
    pad(d.year, 4) \o "-" \o pad(d.month, 2) \o "-" \o pad(d.day, 2)

\* the UTC offset suffix of datetime.isoformat()
utcoffset(offset) ==
    LET a == IF offset < 0 THEN 0 - offset ELSE offset IN
    (IF offset < 0 THEN "-" ELSE "+")
        \o pad(a \div 3600, 2) \o ":" \o pad((a % 3600) \div 60, 2)
        \o (IF a % 60 = 0 THEN "" ELSE ":" \o pad(a % 60, 2))

\* timezone(timedelta(seconds=offset)) accepts an offset strictly between
\* -24 and 24 hours and raises ValueError for any other
valid_offset(offset) == 0 - SecondsPerDay < offset /\ offset < SecondsPerDay

\* datetime.isoformat() of the wall-clock time local (in seconds) in the
\* zone of the given offset
isoformat(local, offset) ==
    LET secs == local % SecondsPerDay IN
    isodate(local \div SecondsPerDay) \o "T"
        \o pad(secs \div 3600, 2) \o ":" \o pad((secs % 3600) \div 60, 2)
        \o ":" \o pad(secs % 60, 2) \o utcoffset(offset)

\* the timestamp read as UTC, the offset only shown as suffix
_convert_timestamp_utc(timestamp, timezone_offset) ==
    IF ~valid_offset(timezone_offset) THEN MapperRaised("ValueError")
    ELSE Mapped(isoformat(timestamp, timezone_offset))

\* datetime.fromtimestamp(timestamp, utc).astimezone(timezone(offset))
\*     .isoformat(); the timestamps of the model are dates datetime
\* represents
_convert_timestamp(timestamp, timezone_offset) ==
    IF ~valid_offset(timezone_offset) THEN MapperRaised("ValueError")
    ELSE Mapped(isoformat(timestamp + timezone_offset, timezone_offset))

(* ---- get_forecast: the mapping of the payload ---- *)
DAILY_LIMIT == 7
DEFAULT_VISIBILITY == 10000

\* s.split(sep)[0]
split_first(s, sep) ==
    LET I == {i \in 1..Len(s) : char(s, i) = sep} IN
    IF I = {} THEN s
    ELSE SubSeq(s, 1, (CHOOSE i \in I : \A j \in I : i <= j) - 1)

RECURSIVE title_from(_, _)
title_from(s, after_letter) ==
    IF s = "" THEN ""
    ELSE LET c == char(s, 1) IN
         (IF after_letter THEN lower_char(c) ELSE upper_char(c))
             \o title_from(SubSeq(s, 2, Len(s)), is_alpha(c))

\* str.title()
title(s) == title_from(s, FALSE)

\* round(x, 1): x in hundredths, the result in tenths.  The payloads of
\* the model hold no value halfway between two tenths.
round1(x) == (x + 5) \div 10

min(a, b) == IF a <= b THEN a ELSE b
max(a, b) == IF a >= b THEN a ELSE b

symbol_of(units) == IF units = "metric" THEN "°C" ELSE "°F"

point_data(item, timezone_offset, temp_unit) ==
    [ts_iso |-> _convert_timestamp(item.dt, timezone_offset).value,
     temp |-> round1(item.main.temp),
     temp_min |-> round1(item.main.temp_min),
     temp_max |-> round1(item.main.temp_max),
     temp_unit |-> temp_unit,
     icon |-> item.weather[1].icon,
     description |-> title(item.weather[1].description),
     humidity |-> item.main.humidity,
     pressure |-> dict_get(item.main, "pressure", 0),
     wind_speed |-> round1(item.wind.speed),
     visibility |-> dict_get(item, "visibility", DEFAULT_VISIBILITY)
                        \div 1000]

date_key(point) == split_first(point.ts_iso, "T")

RECURSIVE points(_, _, _)
points(list, timezone_offset, temp_unit) ==
    IF list = <<>> THEN <<>>
    ELSE <<point_data(Head(list), timezone_offset, temp_unit)>>
             \o points(Tail(list), timezone_offset, temp_unit)

new_day(point) ==
    [date |-> date_key(point),
     temp_min |-> point.temp_min,
     temp_max |-> point.temp_max,
     icon |-> point.icon,
     description |-> point.description,
     temp_unit |-> point.temp_unit]

RECURSIVE daily_data_first_only(_, _)
\* the aggregation that keeps the first point's temperatures
daily_data_first_only(pts, daily) ==
    IF pts = <<>> THEN daily
    ELSE LET p == Head(pts)
             I == {i \in 1..Len(daily) : daily[i].date = date_key(p)}
         IN daily_data_first_only(Tail(pts),
                IF I = {} THEN Append(daily, new_day(p)) ELSE daily)

RECURSIVE daily_data(_, _)
\* the dict daily_data after the loop over the points: its values in
\* insertion order
daily_data(pts, daily) ==
    IF pts = <<>> THEN daily
    ELSE LET p == Head(pts)
             I == {i \in 1..Len(daily) : daily[i].date = date_key(p)}
         IN daily_data(Tail(pts),
                IF I = {} THEN Append(daily, new_day(p))
                ELSE LET i == CHOOSE i \in I : TRUE IN
                     [daily EXCEPT
                        ![i].temp_min = min(@, p.temp_min),
                        ![i].temp_max = max(@, p.temp_max)])

\* list(daily_data.values()) without the slice
daily_forecast_untruncated(pts) == daily_data(pts, <<>>)

\* list(daily_data.values())[:7]
daily_forecast(pts) ==
    LET days == daily_data(pts, <<>>) IN
    SubSeq(days, 1, min(DAILY_LIMIT, Len(days)))

forecast(data, units) ==
    LET timezone_offset == data.city.timezone
        pts == points(data.list, timezone_offset, symbol_of(units))
    IN IF data.list # <<>> /\ ~valid_offset(timezone_offset)
       THEN \* the first _convert_timestamp raises
            MapperRaised("ValueError")
       ELSE Mapped([city |-> data.city.name,
                    country |-> data.city.country,
                    timezone_offset |-> timezone_offset,
                    lat |-> data.city.coord.lat,
                    lon |-> data.city.coord.lon,
                    points |-> pts,
                    daily_forecast |-> daily_forecast(pts)])

(* ---- forecast payloads ---- *)
\* 2022-01-20T12:00:00Z
T0 == 1642680000

Offsets == {0, 3600, -18000}

\* 22:00 and 23:00 UTC of 20 January: one hour east of Greenwich the
\* second is on 21 January
PointTimes == {T0 + 10 * 3600, T0 + 11 * 3600}

\* temperatures and wind speed in hundredths
Readings ==
    { [main |-> [temp |-> 1250, temp_min |-> 1134, temp_max |-> 1301,
                 humidity |-> 65, pressure |-> 1013],
       weather |-> <<[icon |-> "10d", description |-> "light rain"]>>,
       wind |-> [speed |-> 352],
       visibility |-> 8500],
      [main |-> [temp |-> 1420, temp_min |-> -26, temp_max |-> 1538,
                 humidity |-> 40],
       weather |-> <<[icon |-> "04d", description |-> "cloudy"]>>,
       wind |-> [speed |-> 1008]] }

Item(dt, reading) == [dt |-> dt] @@ reading

PointItems == {Item(dt, r) : dt \in PointTimes, r \in Readings}

\* n points at noon UTC of the days that follow 21 January
TailItems(n) ==
    [k \in 1..n |->
        Item(T0 + (k + 1) * SecondsPerDay,
             CHOOSE r \in Readings : "pressure" \in DOMAIN r.main)]

\* a few points around midnight in any order, then one point a day
ForecastLists(prefix_len, tail_len) ==
    {prefix \o TailItems(n) :
        prefix \in SeqsUpTo(PointItems, prefix_len), n \in 0..tail_len}

ForecastPayloads(prefix_len, tail_len) ==
    {[endpoint |-> "forecast",
      units |-> u,
      data |-> [city |-> [name |-> "Paris", country |-> "FR",
                          timezone |-> o,
                          coord |-> [lat |-> "48.85", lon |-> "2.35"]],
                list |-> l]] :
        u \in {"metric", "imperial"}, o \in Offsets,
        l \in ForecastLists(prefix_len, tail_len)}

(* ---- _convert_timestamp: the calls of the model ---- *)
\* noon of 20 January 2022, the last second of that day, the epoch, the
\* second before it, and the two ends of a leap day
Timestamps == {T0, T0 + 12 * 3600 - 1, 0, -1, 951782400, 1709251199}

\* UTC, one hour east, five hours west, a half-hour zone, an offset with
\* seconds, the two largest offsets, and the first offsets of a whole day
CallOffsets ==
    {0, 3600, -18000, 19800, 3601, SecondsPerDay - 1, 1 - SecondsPerDay,
     SecondsPerDay, 0 - SecondsPerDay}

TimestampCalls ==
    {[endpoint |-> "timestamp", timestamp |-> t, timezone_offset |-> o] :
        t \in Timestamps, o \in CallOffsets}

(* ---- get_current_weather: the mapping of the payload ---- *)
\* the default of the parameter units
units_param(units) == IF units = None THEN "metric" ELSE units

\* wind in metres per second whatever the units
wind_symbol_of_metric(units) == "m/s"

wind_symbol_of(units) == IF units = "metric" THEN "m/s" ELSE "mph"

\* data.get('visibility', 0) // 1000 if data.get('visibility') else 0
visibility_km(data) ==
    IF dict_get(data, "visibility", 0) # 0
    THEN dict_get(data, "visibility", 0) \div 1000
    ELSE 0

current_weather(data, units) ==
    LET timezone_offset == dict_get(data, "timezone", 0)
        current_time == _convert_timestamp(data.dt, timezone_offset)
    IN IF current_time.raised THEN current_time
       ELSE Mapped([city |-> data.name,
                    country |-> data.sys.country,
                    local_time_iso |-> current_time.value,
                    timezone_offset |-> timezone_offset,
                    temp |-> round1(data.main.temp),
                    temp_unit |-> symbol_of(units),
                    feels_like |-> round1(data.main.feels_like),
                    humidity |-> data.main.humidity,
                    pressure |-> dict_get(data.main, "pressure", 0),
                    wind_speed |-> round1(data.wind.speed),
                    wind_unit |-> wind_symbol_of(units),
                    wind_deg |-> dict_get(data.wind, "deg", 0),
                    visibility |-> visibility_km(data),
                    description |-> title(data.weather[1].description),
                    icon |-> data.weather[1].icon,
                    lat |-> data.coord.lat,
                    lon |-> data.coord.lon])

(* ---- current-weather payloads ---- *)
\* the fields every payload has; temperatures and wind speed in hundredths
Observations ==
    { [name |-> "London", sys |-> [country |-> "GB"], dt |-> T0,
       main |-> [temp |-> 1550, feels_like |-> 1420, humidity |-> 65],
       wind |-> [speed |-> 350],
       weather |-> <<[description |-> "clear sky", icon |-> "01d"]>>,
       coord |-> [lat |-> "51.51", lon |-> "-0.13"]],
      [name |-> "New York", sys |-> [country |-> "US"], dt |-> T0,
       main |-> [temp |-> 6850, feels_like |-> 7020, humidity |-> 55,
                 pressure |-> 1013],
       wind |-> [speed |-> 850, deg |-> 270],
       weather |-> <<[description |-> "partly cloudy", icon |-> "02d"]>>,
       coord |-> [lat |-> "40.71", lon |-> "-74.01"]] }

\* the optional top-level fields: each present or absent
Optionals ==
    {[x \in {} |-> 0]}
        \cup {[timezone |-> o] : o \in {0, -18000}}
        \cup {[visibility |-> v] : v \in {0, 999, 8500}}
        \cup {[timezone |-> -18000, visibility |-> v] : v \in {999, 8500}}

CurrentPayloads ==
    {[endpoint |-> "weather", units |-> u, data |-> more @@ base] :
        u \in {"metric", "imperial", None},
        base \in Observations, more \in Optionals}

(* ---- state machine of the mappers ---- *)
MapperInit ==
    /\ ttl = CACHE_TTL
    /\ cache = [k \in {} |-> None]
    /\ now = 0
    /\ op = [name |-> "init", key |-> None, value |-> None]
    /\ ret = [raised |-> FALSE, value |-> None]
    /\ pre = [k \in {} |-> None]
    /\ written = [k \in Keys |-> NoWrite]
    /\ ref = [k \in {} |-> None]
    /\ refret = [raised |-> FALSE, value |-> None]
    /\ HandlersIdle
    /\ ThreadsIdle
    /\ upstream \in GeoPayloads(MaxItems)
                       \cup ForecastPayloads(MaxPrefix, MaxTail)
                       \cup TimestampCalls
                       \cup CurrentPayloads
    /\ mapped = NotMapped

MapperUnchanged ==
    UNCHANGED <<ttl, cache, now, op, ret, pre, written, ref, refret,
                handlervars, upstream, threadvars>>

SearchLocations ==
    /\ upstream.endpoint = "direct"
    /\ mapped = NotMapped
    /\ mapped' = Mapping("direct", Mapped(locations(upstream.data)))
    /\ MapperUnchanged

GetForecast ==
    /\ upstream.endpoint = "forecast"
    /\ mapped = NotMapped
    /\ mapped' = Mapping("forecast", forecast(upstream.data, upstream.units))
    /\ MapperUnchanged

GetCurrentWeather ==
    /\ upstream.endpoint = "weather"
    /\ mapped = NotMapped
    /\ mapped' = Mapping("weather",
                         current_weather(upstream.data,
                                         units_param(upstream.units)))
    /\ MapperUnchanged

ConvertTimestamp ==
    /\ upstream.endpoint = "timestamp"
    /\ mapped = NotMapped
    /\ mapped' = Mapping("timestamp",
                         _convert_timestamp(upstream.timestamp,
                                            upstream.timezone_offset))
    /\ MapperUnchanged

MapperNext ==
    \/ SearchLocations
    \/ GetForecast
    \/ GetCurrentWeather
    \/ ConvertTimestamp

SpecMapper == MapperInit /\ [][MapperNext]_vars

(* ---- the claims on the mappers ---- *)
contains(s, sub) ==
    \E i \in 1..Len(s) : i + Len(sub) - 1 <= Len(s)
                            /\ SubSeq(s, i, i + Len(sub) - 1) = sub

\* C19: for every upstream item the search mapper builds display_name as
\* "<name>, <state> <country>" when the state is non-empty and as
\* "<name> <country>" when the state is empty or missing, with no dangling
\* comma and no double space.
C19_DisplayName ==
    mapped.endpoint = "direct" =>
        /\ Len(mapped.value) = Len(upstream.data)
        /\ \A i \in 1..Len(upstream.data) :
              LET item == upstream.data[i]
                  state == dict_get(item, "state", "")
                  shown == mapped.value[i].display_name
              IN /\ shown = IF state # ""
                            THEN item.name \o ", " \o state \o " "
                                     \o item.country
                            ELSE item.name \o " " \o item.country
                 /\ ~contains(shown, "  ")
                 /\ state = "" => ~contains(shown, ",")

(* the local day number of a point of the payload, and the points of a day *)
LocalDay(j) ==
    (upstream.data.list[j].dt + upstream.data.city.timezone)
        \div SecondsPerDay

LocalDays == {LocalDay(j) : j \in 1..Len(upstream.data.list)}

PointsOf(D) == {j \in 1..Len(upstream.data.list) : LocalDay(j) = D}

FirstPoint(D) == CHOOSE j \in PointsOf(D) : \A k \in PointsOf(D) : j <= k

\* the position of day D among the days in the order they first appear
Rank(D) ==
    Cardinality({E \in LocalDays : FirstPoint(E) <= FirstPoint(D)})

Least(S) == CHOOSE x \in S : \A y \in S : x <= y
Greatest(S) == CHOOSE x \in S : \A y \in S : x >= y

\* the daily entry at position n aggregates the points of local day D
AggregateOf(n, D) ==
    LET e == mapped.value.daily_forecast[n]
        list == upstream.data.list
        first == list[FirstPoint(D)]
    IN /\ e.date = isodate(D)
       /\ e.temp_min =
             Least({round1(list[j].main.temp_min) : j \in PointsOf(D)})
       /\ e.temp_max =
             Greatest({round1(list[j].main.temp_max) : j \in PointsOf(D)})
       /\ e.icon = first.weather[1].icon
       /\ e.description = title(first.weather[1].description)

C21_DailyOrder ==
    mapped.endpoint = "forecast" =>
        LET list == upstream.data.list
            daily == mapped.value.daily_forecast
            pts == mapped.value.points
        IN /\ Len(daily) <= DAILY_LIMIT
           /\ Len(daily) = min(DAILY_LIMIT, Cardinality(LocalDays))
           /\ \A D \in LocalDays :
                 Rank(D) <= DAILY_LIMIT => daily[Rank(D)].date = isodate(D)
           /\ Len(pts) = Len(list)
           /\ \A j \in 1..Len(list) :
                 /\ pts[j].ts_iso =
                       _convert_timestamp(list[j].dt,
                                          upstream.data.city.timezone).value
                 /\ pts[j].temp = round1(list[j].main.temp)
                 /\ pts[j].icon = list[j].weather[1].icon

\* more than 7 points on more than 7 dates, a later date ahead of an
\* earlier one
C21_Witness ==
    /\ mapped.endpoint = "forecast"
    /\ Cardinality(LocalDays) > DAILY_LIMIT
    /\ Len(mapped.value.points) > DAILY_LIMIT
    /\ \E j, k \in 1..Len(upstream.data.list) :
          j < k /\ LocalDay(j) > LocalDay(k)

(* reading an ISO string back *)
to_int(s) ==
    LET digit(c) == CHOOSE n \in 0..9 : ToString(n) = c
        value[i \in 0..Len(s)] ==
            IF i = 0 THEN 0 ELSE 10 * value[i - 1] + digit(char(s, i))
    IN value[Len(s)]

\* the day number, counted from 1970-01-01, of a calendar date
days_from_civil(y, m, d) ==
    LET yy == IF m <= 2 THEN y - 1 ELSE y
        era == yy \div 400
        yoe == yy - era * 400
        doy == (153 * (IF m > 2 THEN m - 3 ELSE m + 9) + 2) \div 5 + d - 1
        doe == yoe * 365 + yoe \div 4 - yoe \div 100 + doy
    IN era * 146097 + doe - 719468

\* the string s is an ISO date-time whose wall-clock fields read the
\* instant local (in seconds) and whose suffix reads the offset
Shows(s, local, offset) ==
    /\ Len(s) \in {25, 28}
    /\ char(s, 5) = "-" /\ char(s, 8) = "-" /\ char(s, 11) = "T"
    /\ char(s, 14) = ":" /\ char(s, 17) = ":" /\ char(s, 23) = ":"
    /\ char(s, 20) \in {"+", "-"}
    /\ Len(s) = 28 => char(s, 26) = ":"
    /\ LET month == to_int(SubSeq(s, 6, 7))
           day == to_int(SubSeq(s, 9, 10))
           hour == to_int(SubSeq(s, 12, 13))
           minute == to_int(SubSeq(s, 15, 16))
           second == to_int(SubSeq(s, 18, 19))
           shown == to_int(SubSeq(s, 21, 22)) * 3600
                        + to_int(SubSeq(s, 24, 25)) * 60
                        + (IF Len(s) = 28 THEN to_int(SubSeq(s, 27, 28))
                           ELSE 0)
       IN /\ month \in 1..12 /\ day \in 1..31
          /\ hour < 24 /\ minute < 60 /\ second < 60
          /\ days_from_civil(to_int(SubSeq(s, 1, 4)), month, day)
                    * SecondsPerDay
                 + hour * 3600 + minute * 60 + second = local
          /\ (IF char(s, 20) = "-" THEN 0 - shown ELSE shown) = offset

C23_UnitSymbols ==
    (mapped.endpoint = "weather" /\ ~mapped.raised) =>
        /\ upstream.units \in {"metric", None} =>
              mapped.value.temp_unit = "°C" /\ mapped.value.wind_unit = "m/s"
        /\ upstream.units = "imperial" =>
              mapped.value.temp_unit = "°F" /\ mapped.value.wind_unit = "mph"

\* imperial symbols on a payload of the New York observation
C23_Witness ==
    /\ mapped.endpoint = "weather"
    /\ ~mapped.raised
    /\ upstream.units = "imperial"
    /\ upstream.data.name = "New York"
    /\ mapped.value.wind_unit = "mph"

\* C24: in the current-weather mapper and in the forecast per-point
\* mapper, visibility is the upstream value in metres floor-divided by
\* 1000 when present, and when the field is absent the defaults apply:
\* visibility 0, pressure 0, timezone offset 0.
C24_Defaults ==
    /\ (mapped.endpoint = "weather" /\ ~mapped.raised) =>
          LET data == upstream.data IN
          /\ mapped.value.visibility =
                IF "visibility" \in DOMAIN data
                THEN data.visibility \div 1000 ELSE 0
          /\ mapped.value.pressure =
                IF "pressure" \in DOMAIN data.main
                THEN data.main.pressure ELSE 0
          /\ mapped.value.timezone_offset =
                IF "timezone" \in DOMAIN data THEN data.timezone ELSE 0
    /\ (mapped.endpoint = "forecast" /\ ~mapped.raised) =>
          \A j \in 1..Len(upstream.data.list) :
              LET item == upstream.data.list[j]
                  point == mapped.value.points[j]
              IN /\ point.visibility =
                       IF "visibility" \in DOMAIN item
                       THEN item.visibility \div 1000 ELSE 0
                 /\ point.pressure =
                       IF "pressure" \in DOMAIN item.main
                       THEN item.main.pressure ELSE 0

(* ===================================================================== *)
(* Concurrent callers of the cache. src/services/cache.py takes no lock, *)
(* and app.run (src/app.py:237) serves each request in a thread of its   *)
(* own, so the statements of two calls interleave. A step of a thread is *)
(* one statement (one access to self._cache); the statements that touch  *)
(* no shared state are folded into the step before them.                 *)
(* ===================================================================== *)
\* calls a thread makes
MaxCalls == 2

Calls ==
    {[op |-> "get", key |-> k, value |-> None] : k \in Keys}
    \cup {[op |-> "set", key |-> k, value |-> v] : k \in Keys, v \in Values}
    \cup {[op |-> "delete", key |-> k, value |-> None] : k \in Keys}
    \cup {[op |-> "cleanup_expired", key |-> None, value |-> None]}

\* the first statement of each method
first_pc(name) ==
    CASE name = "get" -> "get_check"
      [] name = "set" -> "set_time"
      [] name = "delete" -> "delete_check"
      [] name = "cleanup_expired" -> "cleanup_time"

\* the call returns or raises: its locals are gone, the thread keeps what
\* the call observed, removed and gave back
leaves(th, r) ==
    [Idle EXCEPT !.op = th.op, !.key = th.key, !.value = th.value,
                 !.entry = th.entry, !.removed = th.removed,
                 !.calls = th.calls, !.ret = r]
returns(th, v) == leaves(th, [raised |-> FALSE, value |-> v])
raises(th, type) == leaves(th, [raised |-> TRUE, value |-> type])

\* the entry a del self._cache[key] took out, and when
Removal(d, key, t) == [key |-> key, entry |-> d[key], at |-> t]

ThreadUnchanged ==
    UNCHANGED <<ttl, op, ret, pre, written, ref, refret,
                handlervars, mappervars>>

\* a request thread enters a method of the cache
Call(t) ==
    /\ threads[t].pc = "idle"
    /\ threads[t].calls < MaxCalls
    /\ \E c \in Calls :
          threads' = [threads EXCEPT ![t] =
              [Idle EXCEPT !.pc = first_pc(c.op), !.op = c.op,
                           !.key = c.key, !.value = c.value,
                           !.calls = threads[t].calls + 1]]
    /\ UNCHANGED <<cache, now>>
    /\ ThreadUnchanged

\* if key not in self._cache: return None
GetCheck(t) ==
    LET th == threads[t] IN
    /\ th.pc = "get_check"
    /\ threads' = [threads EXCEPT ![t] =
          IF th.key \notin DOMAIN cache THEN returns(th, None)
          ELSE [th EXCEPT !.pc = "get_read"]]
    /\ UNCHANGED <<cache, now>>
    /\ ThreadUnchanged

\* entry = self._cache[key]; current_time = time.time(); the expiry test
GetRead(t) ==
    LET th == threads[t]
        e == dict_getitem(cache, th.key) IN
    /\ th.pc = "get_read"
    /\ threads' = [threads EXCEPT ![t] =
          IF e.raised THEN raises(th, KeyError)
          ELSE IF is_expired(e.value, now)
               THEN [th EXCEPT !.pc = "get_evict", !.entry = e.value,
                               !.current_time = now]
               ELSE returns([th EXCEPT !.entry = e.value], e.value.data)]
    /\ UNCHANGED <<cache, now>>
    /\ ThreadUnchanged

\* del self._cache[key]; return None
GetEvict(t) ==
    LET th == threads[t] IN
    /\ th.pc = "get_evict"
    /\ IF th.key \in DOMAIN cache
       THEN /\ cache' = dict_delitem(cache, th.key)
            /\ threads' = [threads EXCEPT ![t] =
                  returns([th EXCEPT !.removed =
                              <<Removal(cache, th.key, now)>>], None)]
       ELSE /\ cache' = cache
            /\ threads' = [threads EXCEPT ![t] = raises(th, KeyError)]
    /\ UNCHANGED now
    /\ ThreadUnchanged

\* current_time = time.time(); expires_at = current_time + self.ttl
SetTime(t) ==
    LET th == threads[t] IN
    /\ th.pc = "set_time"
    /\ threads' = [threads EXCEPT ![t] =
          [th EXCEPT !.pc = "set_store", !.current_time = now]]
    /\ UNCHANGED <<cache, now>>
    /\ ThreadUnchanged

\* self._cache[key] = {...}
SetStore(t) ==
    LET th == threads[t]
        entry == [data |-> th.value,
                  expires_at |-> th.current_time + ttl,
                  created_at |-> th.current_time] IN
    /\ th.pc = "set_store"
    /\ cache' = dict_setitem(cache, th.key, entry)
    /\ threads' = [threads EXCEPT ![t] =
          returns([th EXCEPT !.entry = entry], None)]
    /\ UNCHANGED now
    /\ ThreadUnchanged

\* if key in self._cache: ... return False
DeleteCheck(t) ==
    LET th == threads[t] IN
    /\ th.pc = "delete_check"
    /\ threads' = [threads EXCEPT ![t] =
          IF th.key \in DOMAIN cache THEN [th EXCEPT !.pc = "delete_remove"]
          ELSE returns(th, FALSE)]
    /\ UNCHANGED <<cache, now>>
    /\ ThreadUnchanged

\* del self._cache[key]; return True
DeleteRemove(t) ==
    LET th == threads[t] IN
    /\ th.pc = "delete_remove"
    /\ IF th.key \in DOMAIN cache
       THEN /\ cache' = dict_delitem(cache, th.key)
            /\ threads' = [threads EXCEPT ![t] =
                  returns([th EXCEPT !.removed =
                              <<Removal(cache, th.key, now)>>], TRUE)]
       ELSE /\ cache' = cache
            /\ threads' = [threads EXCEPT ![t] = raises(th, KeyError)]
    /\ UNCHANGED now
    /\ ThreadUnchanged

\* current_time = time.time(); expired_keys = []; the for statement makes
\* the iterator of self._cache.items(), which remembers the size of the dict
CleanupTime(t) ==
    LET th == threads[t] IN
    /\ th.pc = "cleanup_time"
    /\ threads' = [threads EXCEPT ![t] =
          [th EXCEPT !.pc = "cleanup_scan", !.current_time = now,
                     !.size = Cardinality(DOMAIN cache)]]
    /\ UNCHANGED <<cache, now>>
    /\ ThreadUnchanged

\* one turn of the scanning loop: the iterator raises RuntimeError when the
\* dict has changed size since the loop began, else it yields the next item
\* or ends the loop
CleanupScan(t) ==
    LET th == threads[t]
        rest == (DOMAIN cache) \ th.visited IN
    /\ th.pc = "cleanup_scan"
    /\ IF Cardinality(DOMAIN cache) # th.size
       THEN threads' = [threads EXCEPT ![t] = raises(th, "RuntimeError")]
       ELSE IF rest = {}
       THEN threads' = [threads EXCEPT ![t] =
                [th EXCEPT !.pc = "cleanup_remove"]]
       ELSE \E key \in rest :
              threads' = [threads EXCEPT ![t] =
                [th EXCEPT !.visited = @ \cup {key},
                           !.expired_keys =
                               IF is_expired(cache[key], th.current_time)
                               THEN Append(@, key) ELSE @]]
    /\ UNCHANGED <<cache, now>>
    /\ ThreadUnchanged

\* one turn of the removing loop (del self._cache[key]), or, past its end,
\* return len(expired_keys)
CleanupRemove(t) ==
    LET th == threads[t]
        i == Len(th.removed) + 1 IN
    /\ th.pc = "cleanup_remove"
    /\ IF i > Len(th.expired_keys)
       THEN /\ cache' = cache
            /\ threads' = [threads EXCEPT ![t] =
                  returns(th, Len(th.expired_keys))]
       ELSE IF th.expired_keys[i] \in DOMAIN cache
       THEN /\ cache' = dict_delitem(cache, th.expired_keys[i])
            /\ threads' = [threads EXCEPT ![t] =
                  [th EXCEPT !.removed =
                      Append(@, Removal(cache, th.expired_keys[i], now))]]
       ELSE /\ cache' = cache
            /\ threads' = [threads EXCEPT ![t] = raises(th, KeyError)]
    /\ UNCHANGED now
    /\ ThreadUnchanged

\* the clock advances while the threads run
Clock ==
    /\ now < MaxTime
    /\ now' = now + 1
    /\ UNCHANGED <<cache, threads>>
    /\ ThreadUnchanged

ConcNext ==
    \/ Clock
    \/ \E t \in Threads : Call(t)
    \/ \E t \in Threads : GetCheck(t)
    \/ \E t \in Threads : GetRead(t)
    \/ \E t \in Threads : GetEvict(t)
    \/ \E t \in Threads : SetTime(t)
    \/ \E t \in Threads : SetStore(t)
    \/ \E t \in Threads : DeleteCheck(t)
    \/ \E t \in Threads : DeleteRemove(t)
    \/ \E t \in Threads : CleanupTime(t)
    \/ \E t \in Threads : CleanupScan(t)
    \/ \E t \in Threads : CleanupRemove(t)

SpecConc == Init /\ [][ConcNext]_vars

(* ---- the claims on concurrent calls ---- *)
\* C25: when get(k) interleaves with a set(k, v), a delete(k) or another
\* get(k), its expiry check and its removal act as one atomic step: get
\* never raises, and the entry a get removes is the expired entry it had
\* observed, never one a concurrent set stored since.
C25_GetAtomic ==
    \A t \in Threads :
        threads[t].op = "get" =>
            /\ ~threads[t].ret.raised
            /\ \A i \in DOMAIN threads[t].removed :
                  threads[t].removed[i].entry = threads[t].entry

\* C26: cleanup_expired running beside set, get and delete completes
\* without error, removes only entries that are expired (never one a
\* concurrent set refreshed), and returns the number of entries it removed.
C26_CleanupAtomic ==
    \A t \in Threads :
        threads[t].op = "cleanup_expired" =>
            /\ ~threads[t].ret.raised
            /\ \A i \in DOMAIN threads[t].removed :
                  is_expired(threads[t].removed[i].entry,
                             threads[t].removed[i].at)
            /\ (threads[t].pc = "idle" =>
                  threads[t].ret.value = Len(threads[t].removed))

====
